---- MODULE Spec2Model ----
(***************************************************************************)
(* MusicXMLToTenuto.py: the MusicXML -> Tenuto converter as a state        *)
(* machine.  The three phases of the entry point (parse_structure,         *)
(* parse_logic, generate_tenuto) are run in order; the document is read    *)
(* element by element, each element drawn from a small set when the code   *)
(* reaches it.  Text is modelled as a sequence of pieces (characters for   *)
(* names and identifiers, whole lexemes for token parts), so that string   *)
(* concatenation is \o and nothing is rendered by the identity.            *)
(***************************************************************************)
EXTENDS Integers, Sequences, FiniteSets, TLC

\* ------------------------------------------------------------------ bounds
\* score-part elements in the part-list
MaxScoreParts == 3
\* part, measure, note and direction elements in the whole document
MaxBody == 6

\* the largest tick count and the largest divisions value the quantizer is
\* given when it is checked alone
MaxTicks == 32
MaxDivisions == 16

\* ----------------------------------------------------------- Optional[T]
\* Python's None and a present value v: <<>> and <<v>>.
None == <<>>

Some(v) == <<v>>

Min(a, b) == IF a < b THEN a ELSE b

\* ------------------------------------------------------------ characters
Digits == {"0", "1", "2", "3", "4", "5", "6", "7", "8", "9"}

Letters == {"a", "c", "d", "e", "g", "i", "l", "m", "n", "o", "r", "s", "t", "u", "v"}

\* str.lower() on one character of the alphabet the names are drawn from
Lower(c) ==
    CASE c = "V" -> "v" [] c = "I" -> "i" [] c = "C" -> "c" [] c = "D" -> "d"
      [] c = "E" -> "e" [] c = "G" -> "g" [] OTHER -> c

\* str.isalnum() on one (lower-cased) character
IsAlnum(c) == c \in Letters \cup Digits

\* str(n) for n >= 0, as its decimal digits
RECURSIVE Str(_)
Str(n) ==
    LET d == CASE n % 10 = 0 -> "0" [] n % 10 = 1 -> "1" [] n % 10 = 2 -> "2"
               [] n % 10 = 3 -> "3" [] n % 10 = 4 -> "4" [] n % 10 = 5 -> "5"
               [] n % 10 = 6 -> "6" [] n % 10 = 7 -> "7" [] n % 10 = 8 -> "8"
               [] OTHER -> "9"
    IN IF n < 10 THEN <<d>> ELSE Str(n \div 10) \o <<d>>

\* sep.join(parts) for a list of piece sequences
RECURSIVE Join(_, _)
Join(parts, sep) ==
    IF parts = <<>> THEN <<>>
    ELSE IF Len(parts) = 1 THEN parts[1]
    ELSE parts[1] \o <<sep>> \o Join(Tail(parts), sep)

\* ------------------------------------------------------------------ state
VARIABLES
    pc,                     \* where the entry point is: "load", "structure",
                            \* "logic", "part", "notes", "render", "write",
                            \* "done", "failed"
    global_meta,            \* self.global_meta: ordered key/value pairs
    parts_info,             \* self.parts_info: ordered dict, as a sequence
    pivot_data,             \* self.pivot_data: measure -> key -> value
    divisions_per_quarter,  \* self.divisions_per_quarter
    pid,                    \* parse_logic: id of the part being walked
    measure_index,          \* parse_logic: measure_index
    notes,                  \* parse_logic: notes of the measure being walked
    i,                      \* parse_logic: cursor into notes
    current_voice_tokens,   \* parse_logic: tokens of the measure so far
    tenuto_code,            \* the rendered text
    output_file,            \* the content of the output file, None before it is written
    error_stream,           \* what the entry point wrote to sys.stderr
    read,                   \* what has been read of the document: the header,
                            \* the score-parts, the size of the body
    history                 \* what parse_logic did, in traversal order

vars == <<pc, global_meta, parts_info, pivot_data, divisions_per_quarter, pid,
          measure_index, notes, i, current_voice_tokens, tenuto_code,
          output_file, error_stream, read, history>>

logic_vars == <<pivot_data, divisions_per_quarter, pid, measure_index, notes,
                i, current_voice_tokens, history>>

\* TenutoState.__init__ starting from a quarter note in octave 4 (a faulty
\* variant)
TenutoStateQuarter == [last_duration |-> Some(":4"), last_octave |-> Some("4")]

\* TenutoState.__init__
TenutoState == [last_duration |-> None, last_octave |-> None]

\* MusicXMLToTenuto.__init__, after the tree is loaded
Init ==
    /\ pc = "structure"
    /\ global_meta = <<>>
    /\ parts_info = <<>>
    /\ pivot_data = <<>>
    /\ divisions_per_quarter = 1
    /\ pid = None
    /\ measure_index = 0
    /\ notes = <<>>
    /\ i = 0
    /\ current_voice_tokens = <<>>
    /\ tenuto_code = None
    /\ output_file = None
    /\ error_stream = <<>>
    /\ read = [header |-> FALSE, score_parts |-> <<>>, body |-> 0]
    /\ history = <<>>

\* ------------------------------------------------- Phase 1: parse_structure
\* the header elements the document may carry: work (with its children) and
\* identification (with its children); an element without children is falsy
Title == <<"O", "p", "\"", "1">>

Composer == <<"A">>

NoHeader == [work |-> None, identification |-> None]

FullHeader ==
    [work |-> Some([work_title |-> Some(Some(Title))]),
     identification |-> Some([creator |-> Some(Some(Composer))])]

HeadersNarrow == { FullHeader }

HeadersWide ==
    { NoHeader, FullHeader,
      [work |-> Some([work_title |-> None]), identification |-> None],
      [work |-> None, identification |-> Some([creator |-> None])] }

\* steps 1 and 2 of parse_structure: title and composer
HeaderMeta(h) ==
    LET title == IF h.work = None THEN <<>>
                 ELSE LET w == h.work[1]
                      IN <<[key |-> "title",
                            value |-> IF w.work_title = None
                                      THEN Some(<<"U", "n", "t", "i", "t", "l", "e", "d">>)
                                      ELSE w.work_title[1]]>>
        composer == IF h.identification = None THEN <<>>
                    ELSE LET c == h.identification[1].creator
                         IN IF c = None THEN <<>>
                            ELSE <<[key |-> "composer", value |-> c[1]]>>
    IN title \o composer

ParseHeader(h) ==
    /\ pc = "structure"
    /\ ~read.header
    /\ global_meta' = HeaderMeta(h)
    /\ read' = [read EXCEPT !.header = TRUE]
    /\ UNCHANGED <<pc, parts_info, tenuto_code, output_file, error_stream>>
    /\ UNCHANGED logic_vars

\* the display names a score-part may carry (None: no part-name element)
Instrument == <<"I", "n", "s", "t", "r", "u", "m", "e", "n", "t">>

NamesNarrow == { Some(<<"V", "l", "n">>) }

NamesWide ==
    { Some(<<"V", "l", "n">>), Some(<<"V", "l", "n", "1">>),
      Some(<<"V", "-", "l", " ", "n">>),
      Some(<<"V", "i", "o", "l", "i", "n", " ", "I">>),
      Some(<<"-", "-">>), None,
      Some(<<"_", "_", "m", "e", "t", "a", "_", "_">>) }

PartIdsInOrder == <<"P1", "P2">>

PartIds == { PartIdsInOrder[k] : k \in 1..Len(PartIdsInOrder) }

\* a part-list whose ids are P1, P2 in this order: the next score-part of it
ScorePartsNarrow(info) ==
    { sp \in [id : PartIds, part_name : NamesNarrow] :
        /\ Len(info) < Len(PartIdsInOrder)
        /\ sp.id = PartIdsInOrder[Len(info) + 1] }

\* any part-list, ids repeated or not
ScorePartsWide == [id : PartIds \cup {"P3"}, part_name : NamesWide]

\* line 173-174 with the name taken as it is, lower-cased (a faulty variant)
SlugVerbatim(name) ==
    IF name = <<>> THEN <<"i", "n", "s", "t">>
    ELSE [k \in 1..Len(name) |-> Lower(name[k])]

\* line 173-174: lower-case, keep the alphanumerics, cut to 4, default "inst"
Slug(name) ==
    LET low == [k \in 1..Len(name) |-> Lower(name[k])]
        kept == SelectSeq(low, IsAlnum)
        cut == SubSeq(kept, 1, Min(4, Len(kept)))
    IN IF cut = <<>> THEN <<"i", "n", "s", "t">> ELSE cut

TakenIds(info) == { info[k].tenuto_id : k \in 1..Len(info) }

\* lines 178-182 with a loop that gives up after one round (a faulty variant)
RECURSIVE ResolveOnce(_, _, _, _)
ResolveOnce(base_slug, count, slug, info) ==
    IF slug \in TakenIds(info) /\ count = 1
    THEN ResolveOnce(base_slug, count + 1, base_slug \o Str(count), info)
    ELSE slug

\* lines 178-182: the collision loop
RECURSIVE Resolve(_, _, _, _)
Resolve(base_slug, count, slug, info) ==
    IF slug \in TakenIds(info)
    THEN Resolve(base_slug, count + 1, base_slug \o Str(count), info)
    ELSE slug

\* dict assignment d[key] = value on an ordered dict: a key already present
\* keeps its position
SetPart(info, entry) ==
    IF \E k \in 1..Len(info) : info[k].pid = entry.pid
    THEN [k \in 1..Len(info) |-> IF info[k].pid = entry.pid THEN entry ELSE info[k]]
    ELSE Append(info, entry)

\* one iteration of the score-part loop
ScorePart(sp) ==
    /\ pc = "structure"
    /\ read.header
    /\ Len(read.score_parts) < MaxScoreParts
    /\ LET name == IF sp.part_name = None THEN Instrument ELSE sp.part_name[1]
           slug == Slug(name)
           tid == Resolve(slug, 1, slug, parts_info)
       IN parts_info' = SetPart(parts_info,
                                [pid |-> sp.id, tenuto_id |-> tid, name |-> name,
                                 state |-> TenutoState])
    /\ read' = [read EXCEPT !.score_parts = Append(@, sp)]
    /\ UNCHANGED <<pc, global_meta, tenuto_code, output_file, error_stream>>
    /\ UNCHANGED logic_vars

\* parse_structure returns; the entry point calls parse_logic
EndStructure ==
    /\ pc = "structure"
    /\ read.header
    /\ pc' = "logic"
    /\ UNCHANGED <<global_meta, parts_info, tenuto_code, output_file, error_stream, read>>
    /\ UNCHANGED logic_vars

\* ---------------------------------------------------- Phase 2: parse_logic
\* the pitches a note may carry (None: a rest)
C4 == [step |-> "C", alter |-> None, octave |-> "4"]

Eb4 == [step |-> "E", alter |-> Some("-1"), octave |-> "4"]

Gs5 == [step |-> "G", alter |-> Some("1"), octave |-> "5"]

Articulated ==
    [articulations |-> Some({"staccato", "tenuto"}), slur |-> Some("start")]

Note(chord, pitch, duration, notations) ==
    [tag |-> "note", chord |-> chord, pitch |-> pitch, duration |-> duration,
     notations |-> notations]

\* the children of a measure that the model draws from: notes, and a
\* direction carrying a dynamics marking
NoteElements ==
    { Note(FALSE, Some(C4), Some(1), None),
      Note(FALSE, Some(Gs5), Some(2), Some(Articulated)),
      Note(FALSE, None, Some(1), None),
      Note(TRUE, Some(Eb4), Some(2), None),
      Note(TRUE, None, Some(1), None) }

Forte == [tag |-> "direction", dynamics |-> "f"]

Elements == NoteElements \cup {Forte}

\* the attribute blocks a measure may carry (None: no attributes element)
ThreeFour == [beats |-> Some("3"), beat_type |-> Some("4")]

AttributeBlocks ==
    { None, Some([divisions |-> Some(2), time |-> Some(ThreeFour)]) }

RECURSIVE SeqsUpTo(_, _)
SeqsUpTo(S, n) ==
    IF n < 0 THEN {}
    ELSE IF n = 0 THEN {<<>>}
    ELSE LET shorter == SeqsUpTo(S, n - 1)
         IN shorter \cup { Append(s, e) : s \in { t \in shorter : Len(t) = n - 1 }, e \in S }

\* calculate_tenuto_duration with a floor division, ticks // divisions (a
\* faulty variant)
calculate_tenuto_duration_floor(duration_ticks, divisions) ==
    IF duration_ticks = None THEN ":4"
    ELSE IF divisions <= 0 THEN ":4"
    ELSE LET q == duration_ticks[1] \div divisions
         IN CASE q = 4 -> ":1" [] q = 3 -> ":2." [] q = 2 -> ":2" [] OTHER -> ":4"

\* calculate_tenuto_duration, on the text of an integer tick count
calculate_tenuto_duration(duration_ticks, divisions) ==
    IF duration_ticks = None THEN ":4"
    ELSE IF divisions = 0 THEN ":4"
    ELSE LET t == duration_ticks[1]
             d == divisions
         IN CASE t = 4 * d -> ":1"
              [] t = 3 * d -> ":2."
              [] t = 2 * d -> ":2"
              [] 2 * t = 3 * d -> ":4."
              [] t = d -> ":4"
              [] 4 * t = 3 * d -> ":8."
              [] 2 * t = d -> ":8"
              [] 8 * t = 3 * d -> ":16."
              [] 4 * t = d -> ":16"
              [] 8 * t = d -> ":32"
              [] OTHER -> ":4"

\* lines 252-256: the accidental of a numeric alteration
Accidental(alter) ==
    CASE alter = Some("1") -> <<"#">>
      [] alter = Some("-1") -> <<"b">>
      [] alter = Some("2") -> <<"x">>
      [] alter = Some("-2") -> <<"bb">>
      [] OTHER -> <<>>

Rest == <<"r">>

\* parse_pitch with the octave always written (a faulty variant)
parse_pitch_always(note_xml, state) ==
    IF note_xml.pitch = None THEN [token |-> Rest, state |-> state]
    ELSE LET pitch == note_xml.pitch[1]
         IN [token |-> <<Lower(pitch.step)>> \o Accidental(pitch.alter) \o <<pitch.octave>>,
             state |-> [state EXCEPT !.last_octave = Some(pitch.octave)]]

\* parse_pitch with a rest clearing last_octave (a faulty variant)
parse_pitch_forgetful(note_xml, state) ==
    IF note_xml.pitch = None
    THEN [token |-> Rest, state |-> [state EXCEPT !.last_octave = None]]
    ELSE LET pitch == note_xml.pitch[1]
             token == <<Lower(pitch.step)>> \o Accidental(pitch.alter)
         IN IF state.last_octave = Some(pitch.octave)
            THEN [token |-> token, state |-> state]
            ELSE [token |-> token \o <<pitch.octave>>,
                  state |-> [state EXCEPT !.last_octave = Some(pitch.octave)]]

\* parse_pitch: the token, and the voice context after the call
parse_pitch(note_xml, state) ==
    IF note_xml.pitch = None THEN [token |-> Rest, state |-> state]
    ELSE LET pitch == note_xml.pitch[1]
             token == <<Lower(pitch.step)>> \o Accidental(pitch.alter)
         IN IF state.last_octave = Some(pitch.octave)
            THEN [token |-> token, state |-> state]
            ELSE [token |-> token \o <<pitch.octave>>,
                  state |-> [state EXCEPT !.last_octave = Some(pitch.octave)]]

\* line 351 with every member rendered against the context the chord started
\* from (a faulty variant)
RECURSIVE ParsePitchesApart(_, _)
ParsePitchesApart(stack, state) ==
    IF stack = <<>> THEN [pitches |-> <<>>, state |-> state]
    ELSE LET first == parse_pitch(stack[1], state)
             others == ParsePitchesApart(Tail(stack), state)
         IN [pitches |-> <<first.token>> \o others.pitches,
             state |-> IF Len(stack) = 1 THEN first.state ELSE others.state]

\* line 351: parse_pitch on each member of the chord stack, in order
RECURSIVE ParsePitches(_, _)
ParsePitches(stack, state) ==
    IF stack = <<>> THEN [pitches |-> <<>>, state |-> state]
    ELSE LET first == parse_pitch(stack[1], state)
             others == ParsePitches(Tail(stack), first.state)
         IN [pitches |-> <<first.token>> \o others.pitches, state |-> others.state]

\* lines 334-342 with the inner loop run at most once (a faulty variant)
LookaheadOne(ns, j) ==
    IF j <= Len(ns) /\ ns[j].chord THEN j + 1 ELSE j

\* lines 334-342: the index after the chord members that follow position k
\* (k and the result are 1-based positions in the note list)
RECURSIVE Lookahead(_, _)
Lookahead(ns, j) ==
    IF j <= Len(ns) /\ ns[j].chord THEN Lookahead(ns, j + 1) ELSE j

\* lines 369-381: the suffixes of the cluster head's notations
NotationSuffixes(head) ==
    IF head.notations = None THEN <<>>
    ELSE LET n == head.notations[1]
             arts == IF n.articulations = None THEN <<>>
                     ELSE (IF "staccato" \in n.articulations[1] THEN <<".stacc">> ELSE <<>>)
                          \o (IF "accent" \in n.articulations[1] THEN <<".acc">> ELSE <<>>)
                          \o (IF "tenuto" \in n.articulations[1] THEN <<".ten">> ELSE <<>>)
             slur == IF n.slur = Some("start") THEN <<".legato">> ELSE <<>>
         IN arts \o slur

\* lines 361-365 with the comparison dropped (a faulty variant)
DurationSuffixAlways(state, ten_dur) ==
    [suffix |-> <<ten_dur>>, state |-> [state EXCEPT !.last_duration = Some(ten_dur)]]

\* lines 361-365 with the suffix written for the first event of a voice only
\* (a faulty variant)
DurationSuffixFirstOnly(state, ten_dur) ==
    IF state.last_duration # None
    THEN [suffix |-> <<>>, state |-> [state EXCEPT !.last_duration = Some(ten_dur)]]
    ELSE [suffix |-> <<ten_dur>>, state |-> [state EXCEPT !.last_duration = Some(ten_dur)]]

\* lines 361-365: the duration suffix, and the voice context after it
DurationSuffix(state, ten_dur) ==
    IF state.last_duration = Some(ten_dur)
    THEN [suffix |-> <<>>, state |-> state]
    ELSE [suffix |-> <<ten_dur>>, state |-> [state EXCEPT !.last_duration = Some(ten_dur)]]

\* lines 332-383 with the duration taken from the last member of the chord
\* stack (a faulty variant)
ClusterTokenLast(ns, k, state, divisions) ==
    LET j == Lookahead(ns, k + 1)
        chord_stack == SubSeq(ns, k, j - 1)
        ten_dur == calculate_tenuto_duration(chord_stack[Len(chord_stack)].duration,
                                             divisions)
        rendered == IF Len(chord_stack) > 1
                    THEN LET all == ParsePitches(chord_stack, state)
                             kept == SelectSeq(all.pitches, LAMBDA p : p # Rest)
                         IN [token |-> <<"[">> \o Join(kept, " ") \o <<"]">>,
                             state |-> all.state]
                    ELSE parse_pitch(chord_stack[1], state)
        dur == DurationSuffix(rendered.state, ten_dur)
    IN [token |-> rendered.token \o dur.suffix \o NotationSuffixes(chord_stack[1]),
        state |-> dur.state, next |-> j, chord_stack |-> chord_stack,
        ten_dur |-> ten_dur]

\* lines 332-383: the token of the cluster that starts at 1-based position k
\* of the note list, and the voice context after it
ClusterToken(ns, k, state, divisions) ==
    LET j == Lookahead(ns, k + 1)
        chord_stack == SubSeq(ns, k, j - 1)
        ten_dur == calculate_tenuto_duration(chord_stack[1].duration, divisions)
        rendered == IF Len(chord_stack) > 1
                    THEN LET all == ParsePitches(chord_stack, state)
                             kept == SelectSeq(all.pitches, LAMBDA p : p # Rest)
                         IN [token |-> <<"[">> \o Join(kept, " ") \o <<"]">>,
                             state |-> all.state]
                    ELSE parse_pitch(chord_stack[1], state)
        dur == DurationSuffix(rendered.state, ten_dur)
    IN [token |-> rendered.token \o dur.suffix \o NotationSuffixes(chord_stack[1]),
        state |-> dur.state, next |-> j, chord_stack |-> chord_stack,
        ten_dur |-> ten_dur]

\* dict lookup and assignment
HasKey(d, k) == k \in DOMAIN d

\* dict.setdefault in place of the assignment: a key already present keeps
\* its value (a faulty variant)
PutIfAbsent(d, k, v) == [x \in DOMAIN d \cup {k} |-> IF x \in DOMAIN d THEN d[x] ELSE v]

Put(d, k, v) == [x \in DOMAIN d \cup {k} |-> IF x = k THEN v ELSE d[x]]

\* self.pivot_data[m][key] = value, on the defaultdict of defaultdicts
PivotPut(pivot, m, key, value) ==
    Put(pivot, m, Put(IF HasKey(pivot, m) THEN pivot[m] ELSE <<>>, key, value))

MetaKey == <<"_", "_", "m", "e", "t", "a", "_", "_">>

Known(info, p) == \E k \in 1..Len(info) : info[k].pid = p

PartOf(info, p) == info[CHOOSE k \in 1..Len(info) : info[k].pid = p]

\* one TenutoState object shared by every entry of the table: a write to it
\* is a write to all of them (a faulty variant)
SetStateShared(info, p, state) ==
    [k \in 1..Len(info) |-> [info[k] EXCEPT !.state = state]]

\* the state object of a part is shared with parts_info: a write to it is a
\* write to the table's entry
SetState(info, p, state) ==
    [k \in 1..Len(info) |-> IF info[k].pid = p THEN [info[k] EXCEPT !.state = state]
                            ELSE info[k]]

\* lines 301-310 with the first measure's attributes of a skipped part
\* processed (a faulty variant)
BeginPartAttrs(p) ==
    /\ pc = "logic"
    /\ read.body < MaxBody
    /\ read' = [read EXCEPT !.body = @ + 1]
    /\ IF Known(parts_info, p)
       THEN /\ pc' = "part"
            /\ pid' = Some(p)
            /\ measure_index' = 1
            /\ UNCHANGED <<history, divisions_per_quarter>>
       ELSE /\ \E attrs \in AttributeBlocks :
                   /\ history' = Append(history, [op |-> "skip", pid |-> p, attrs |-> attrs])
                   /\ divisions_per_quarter' =
                          IF attrs # None /\ attrs[1].divisions # None
                          THEN attrs[1].divisions[1] ELSE divisions_per_quarter
            /\ UNCHANGED <<pc, pid, measure_index>>
    /\ UNCHANGED <<global_meta, parts_info, pivot_data, notes, i,
                   current_voice_tokens, tenuto_code, output_file, error_stream>>

\* lines 301-310: the next part element; one not in the header is skipped,
\* whatever the attribute block of its first measure
BeginPart(p) ==
    /\ pc = "logic"
    /\ read.body < MaxBody
    /\ read' = [read EXCEPT !.body = @ + 1]
    /\ IF Known(parts_info, p)
       THEN /\ pc' = "part"
            /\ pid' = Some(p)
            /\ measure_index' = 1
            /\ UNCHANGED history
       ELSE /\ \E attrs \in AttributeBlocks :
                   history' = Append(history, [op |-> "skip", pid |-> p, attrs |-> attrs])
            /\ UNCHANGED <<pc, pid, measure_index>>
    /\ UNCHANGED <<global_meta, parts_info, pivot_data, divisions_per_quarter,
                   notes, i, current_voice_tokens, tenuto_code, output_file,
                   error_stream>>

\* process_attributes without the update of the divider (a faulty variant)
process_attributes_kept(attrs, divisions) ==
    IF attrs = None THEN [divisions |-> divisions, meta_changes |-> <<>>]
    ELSE LET a == attrs[1]
             fmt(x) == IF x = None THEN "None" ELSE x[1]
         IN [divisions |-> divisions,
             meta_changes |->
                 IF a.time = None THEN <<>>
                 ELSE <<(<<"time: ", fmt(a.time[1].beats), "/", fmt(a.time[1].beat_type)>>)>>]

\* process_attributes: the new divisions value and the list of changes
process_attributes(attrs, divisions) ==
    IF attrs = None THEN [divisions |-> divisions, meta_changes |-> <<>>]
    ELSE LET a == attrs[1]
             fmt(x) == IF x = None THEN "None" ELSE x[1]
         IN [divisions |-> IF a.divisions # None THEN a.divisions[1] ELSE divisions,
             meta_changes |->
                 IF a.time = None THEN <<>>
                 ELSE <<(<<"time: ", fmt(a.time[1].beats), "/", fmt(a.time[1].beat_type)>>)>>]

\* lines 313-325: the next measure of the part: its attributes, then its notes
BeginMeasure(attrs, children) ==
    /\ pc = "part"
    /\ read.body + 1 + Len(children) <= MaxBody
    /\ read' = [read EXCEPT !.body = @ + 1 + Len(children)]
    /\ LET pa == process_attributes(attrs, divisions_per_quarter)
       IN /\ divisions_per_quarter' = pa.divisions
          /\ pivot_data' = IF pa.meta_changes # <<>>
                           THEN PivotPut(pivot_data, measure_index, MetaKey, pa.meta_changes)
                           ELSE pivot_data
          /\ history' = Append(history,
                               [op |-> "measure", pid |-> pid[1], m |-> measure_index,
                                attrs |-> attrs, children |-> children,
                                meta_changes |-> pa.meta_changes])
    /\ notes' = SelectSeq(children, LAMBDA e : e.tag = "note")
    /\ i' = 0
    /\ current_voice_tokens' = <<>>
    /\ pc' = "notes"
    /\ UNCHANGED <<global_meta, parts_info, pid, measure_index, tenuto_code, output_file, error_stream>>

\* lines 326-386 with the cursor moved on by one note, i += 1, in place of
\* i = j (a faulty variant)
ClusterByOne ==
    /\ pc = "notes"
    /\ i < Len(notes)
    /\ LET state == PartOf(parts_info, pid[1]).state
           c == ClusterToken(notes, i + 1, state, divisions_per_quarter)
       IN /\ parts_info' = SetState(parts_info, pid[1], c.state)
          /\ current_voice_tokens' = Append(current_voice_tokens, c.token)
          /\ i' = i + 1
          /\ history' = Append(history,
                               [op |-> "event", pid |-> pid[1], m |-> measure_index,
                                at |-> i, chord_stack |-> c.chord_stack,
                                divisions |-> divisions_per_quarter,
                                ten_dur |-> c.ten_dur, before |-> state,
                                after |-> c.state, token |-> c.token])
    /\ UNCHANGED <<pc, global_meta, pivot_data, divisions_per_quarter, pid,
                   measure_index, notes, tenuto_code, output_file, error_stream, read>>

\* lines 326-386: one iteration of the grouping loop
Cluster ==
    /\ pc = "notes"
    /\ i < Len(notes)
    /\ LET state == PartOf(parts_info, pid[1]).state
           c == ClusterToken(notes, i + 1, state, divisions_per_quarter)
       IN /\ parts_info' = SetState(parts_info, pid[1], c.state)
          /\ current_voice_tokens' = Append(current_voice_tokens, c.token)
          /\ i' = c.next - 1
          /\ history' = Append(history,
                               [op |-> "event", pid |-> pid[1], m |-> measure_index,
                                at |-> i, chord_stack |-> c.chord_stack,
                                divisions |-> divisions_per_quarter,
                                ten_dur |-> c.ten_dur, before |-> state,
                                after |-> c.state, token |-> c.token])
    /\ UNCHANGED <<pc, global_meta, pivot_data, divisions_per_quarter, pid,
                   measure_index, notes, tenuto_code, output_file, error_stream, read>>

\* lines 388-390 followed by state.reset(), the 'Strict Mode' of the comment
\* at line 59 (a faulty variant)
EndMeasureStrict ==
    /\ pc = "notes"
    /\ i >= Len(notes)
    /\ LET tenuto_id == PartOf(parts_info, pid[1]).tenuto_id
       IN /\ pivot_data' = PivotPut(pivot_data, measure_index, tenuto_id, current_voice_tokens)
          /\ history' = Append(history,
                               [op |-> "store", pid |-> pid[1], m |-> measure_index,
                                tenuto_id |-> tenuto_id, tokens |-> current_voice_tokens])
    /\ parts_info' = SetState(parts_info, pid[1], TenutoState)
    /\ measure_index' = measure_index + 1
    /\ pc' = "part"
    /\ UNCHANGED <<global_meta, divisions_per_quarter, pid, notes, i,
                   current_voice_tokens, tenuto_code, output_file, error_stream, read>>

\* lines 388-390: the measure's tokens go to the pivot table
EndMeasure ==
    /\ pc = "notes"
    /\ i >= Len(notes)
    /\ LET tenuto_id == PartOf(parts_info, pid[1]).tenuto_id
       IN /\ pivot_data' = PivotPut(pivot_data, measure_index, tenuto_id, current_voice_tokens)
          /\ history' = Append(history,
                               [op |-> "store", pid |-> pid[1], m |-> measure_index,
                                tenuto_id |-> tenuto_id, tokens |-> current_voice_tokens])
    /\ measure_index' = measure_index + 1
    /\ pc' = "part"
    /\ UNCHANGED <<global_meta, parts_info, divisions_per_quarter, pid, notes, i,
                   current_voice_tokens, tenuto_code, output_file, error_stream, read>>

\* the measure loop of a part ends
EndPart ==
    /\ pc = "part"
    /\ pc' = "logic"
    /\ UNCHANGED <<global_meta, parts_info, tenuto_code, output_file, error_stream, read>>
    /\ UNCHANGED logic_vars

\* parse_logic returns; the entry point calls generate_tenuto
EndLogic ==
    /\ pc = "logic"
    /\ pc' = "render"
    /\ UNCHANGED <<global_meta, parts_info, tenuto_code, output_file, error_stream, read>>
    /\ UNCHANGED logic_vars

\* ------------------------------------------------ Phase 3: generate_tenuto
\* sorted(keys) of a set of integers
RECURSIVE Sorted(_)
Sorted(S) ==
    IF S = {} THEN <<>>
    ELSE LET least == CHOOSE x \in S : \A y \in S : x <= y
         IN <<least>> \o Sorted(S \ {least})

\* v.replace('"', '\\"')
RECURSIVE Escape(_)
Escape(v) ==
    IF v = <<>> THEN <<>>
    ELSE (IF v[1] = "\"" THEN <<"\\", "\"">> ELSE <<v[1]>>) \o Escape(Tail(v))

RECURSIVE Flatten(_)
Flatten(seqs) == IF seqs = <<>> THEN <<>> ELSE seqs[1] \o Flatten(Tail(seqs))

\* lines 434-438: the instrument lines of one measure block
InstrumentLines(data, info) ==
    LET line(k) == IF HasKey(data, info[k].tenuto_id)
                   THEN <<(<<"    ">> \o info[k].tenuto_id \o <<": ">>
                           \o Join(data[info[k].tenuto_id], " ") \o <<" |">>)>>
                   ELSE <<>>
    IN Flatten([k \in 1..Len(info) |-> line(k)])

\* lines 423-441 with the instrument lines in the order the instruments were
\* first stored for the measure, 'for tid in data' (a faulty variant)
MeasureBlockArrival(m_idx, data, info) ==
    LET stores == SelectSeq(history, LAMBDA h : h.op = "store" /\ h.m = m_idx)
        first == SelectSeq([k \in 1..Len(stores) |->
                               IF \E l \in 1..(k - 1) : stores[l].tenuto_id = stores[k].tenuto_id
                               THEN <<>> ELSE stores[k].tenuto_id],
                           LAMBDA t : t # <<>>)
    IN <<(<<"  measure ">> \o Str(m_idx) \o <<" {">>)>>
       \o (IF HasKey(data, MetaKey)
           THEN <<(<<"    meta { ">> \o Join(data[MetaKey], ", ") \o <<" }">>)>>
           ELSE <<>>)
       \o [k \in 1..Len(first) |->
              <<"    ">> \o first[k] \o <<": ">> \o Join(data[first[k]], " ") \o <<" |">>]
       \o << <<"  }">>, <<>> >>

\* lines 423-441: the block of one measure
MeasureBlock(m_idx, data, info) ==
    <<(<<"  measure ">> \o Str(m_idx) \o <<" {">>)>>
    \o (IF HasKey(data, MetaKey)
        THEN <<(<<"    meta { ">> \o Join(data[MetaKey], ", ") \o <<" }">>)>>
        ELSE <<>>)
    \o InstrumentLines(data, info)
    \o << <<"  }">>, <<>> >>

\* lines 400-443: the lines of the rendered text
TenutoLines(meta, info, pivot) ==
    LET sorted_measures == Sorted(DOMAIN pivot)
    IN << <<"tenuto {">>, <<"  meta {">>, <<"    tenuto_version: \"2.0\",">> >>
       \o [k \in 1..Len(meta) |->
              <<"    ", meta[k].key, ": \"">> \o Escape(meta[k].value[1]) \o <<"\",">>]
       \o << <<"  }">>, <<>>, <<"  %% Instrument Definitions">> >>
       \o [k \in 1..Len(info) |->
              <<"  def ">> \o info[k].tenuto_id \o <<" \"">> \o info[k].name
              \o <<"\" style=standard">>]
       \o << <<>>, <<"  %% Score Logic">> >>
       \o Flatten([k \in 1..Len(sorted_measures) |->
                      MeasureBlock(sorted_measures[k], pivot[sorted_measures[k]], info)])
       \o << <<"}">> >>

\* generate_tenuto: "\n".join(lines)
GenerateTenuto ==
    /\ pc = "render"
    /\ tenuto_code' = Some(Join(TenutoLines(global_meta, parts_info, pivot_data), "\n"))
    /\ pc' = "write"
    /\ UNCHANGED <<global_meta, parts_info, output_file, error_stream, read>>
    /\ UNCHANGED logic_vars

\* lines 477-478: the output file is opened and the text written to it
WriteOutput ==
    /\ pc = "write"
    /\ output_file' = tenuto_code
    /\ pc' = "done"
    /\ UNCHANGED <<global_meta, parts_info, tenuto_code, error_stream, read>>
    /\ UNCHANGED logic_vars

\* ------------------------------------------------- the entry point's faults
\* lines 465-466: the constructor loads and parses the tree
LoadTree ==
    /\ pc = "load"
    /\ pc' = "structure"
    /\ UNCHANGED <<global_meta, parts_info, tenuto_code, output_file, error_stream, read>>
    /\ UNCHANGED logic_vars

\* the steps inside the try block before the output file is opened: loading,
\* parse_structure, parse_logic, generate_tenuto
Guarded == {"load", "structure", "logic", "part", "notes", "render"}

\* lines 482-484 with the output file opened for writing before the try
\* block, so that a fault leaves it empty (a faulty variant)
FaultAfterOpen ==
    /\ pc \in Guarded
    /\ pc' = "failed"
    /\ error_stream' = Append(error_stream, "Error: ")
    /\ output_file' = Some(<<>>)
    /\ UNCHANGED <<global_meta, parts_info, tenuto_code, read>>
    /\ UNCHANGED logic_vars

\* lines 482-484: the step under way raises an exception (a ParseError or a
\* ValueError while loading, a KeyError at line 168, an AttributeError at
\* line 247, a ValueError at line 212 or 283, an AttributeError at line 408);
\* the handler writes it to sys.stderr and the program ends
Fault ==
    /\ pc \in Guarded
    /\ pc' = "failed"
    /\ error_stream' = Append(error_stream, "Error: ")
    /\ UNCHANGED <<global_meta, parts_info, tenuto_code, output_file, read>>
    /\ UNCHANGED logic_vars

\* ---------------------------------------------------------- specifications
Next ==
    \/ \E h \in HeadersNarrow : ParseHeader(h)
    \/ \E sp \in ScorePartsNarrow(parts_info) : ScorePart(sp)
    \/ EndStructure
    \/ \E p \in PartIds : BeginPart(p)
    \/ /\ pc = "part"
       /\ \E attrs \in AttributeBlocks :
              \E children \in SeqsUpTo(Elements, MaxBody - read.body - 1) :
                  BeginMeasure(attrs, children)
    \/ Cluster
    \/ EndMeasure
    \/ EndPart
    \/ EndLogic
    \/ GenerateTenuto
    \/ WriteOutput

Spec == Init /\ [][Next]_vars

\* parse_structure alone, on any header and any part-list
NextStructure ==
    \/ \E h \in HeadersWide : ParseHeader(h)
    \/ \E sp \in ScorePartsWide : ScorePart(sp)
    \/ EndStructure

SpecStructure == Init /\ [][NextStructure]_vars

\* the entry point from line 464 on: the tree is not loaded yet, and any step
\* before the output file is opened may raise
InitEntry ==
    /\ pc = "load"
    /\ global_meta = <<>>
    /\ parts_info = <<>>
    /\ pivot_data = <<>>
    /\ divisions_per_quarter = 1
    /\ pid = None
    /\ measure_index = 0
    /\ notes = <<>>
    /\ i = 0
    /\ current_voice_tokens = <<>>
    /\ tenuto_code = None
    /\ output_file = None
    /\ error_stream = <<>>
    /\ read = [header |-> FALSE, score_parts |-> <<>>, body |-> 0]
    /\ history = <<>>

NextEntry ==
    \/ LoadTree
    \/ Next
    \/ Fault

SpecEntry == InitEntry /\ [][NextEntry]_vars

\* calculate_tenuto_duration alone: the duration text of a note (None: no
\* duration element) and the divisions value in force, negative ones included
TickCounts == {None} \cup { Some(t) : t \in -4..MaxTicks }

DivisionsValues == -4..MaxDivisions

InitQuantizer ==
    /\ pc = "quantize"
    /\ global_meta = <<>>
    /\ parts_info = <<>>
    /\ pivot_data = <<>>
    /\ divisions_per_quarter \in DivisionsValues
    /\ pid = None
    /\ measure_index = 0
    /\ \E t \in TickCounts : notes = <<Note(FALSE, None, t, None)>>
    /\ i = 0
    /\ current_voice_tokens = <<>>
    /\ tenuto_code = None
    /\ output_file = None
    /\ error_stream = <<>>
    /\ read = [header |-> FALSE, score_parts |-> <<>>, body |-> 0]
    /\ history = <<>>

\* lines 345-346: the duration of the note is quantized
Quantize ==
    /\ pc = "quantize"
    /\ pc' = "quantized"
    /\ history' = Append(history,
                         [op |-> "quantize", duration_ticks |-> notes[1].duration,
                          divisions |-> divisions_per_quarter,
                          ten_dur |-> calculate_tenuto_duration(notes[1].duration,
                                                                divisions_per_quarter)])
    /\ UNCHANGED <<global_meta, parts_info, pivot_data, divisions_per_quarter, pid,
                   measure_index, notes, i, current_voice_tokens, tenuto_code,
                   output_file, error_stream, read>>

SpecQuantizer == InitQuantizer /\ [][Quantize]_vars

\* the grouping loop alone: parse_logic is at the measure loop of the one
\* part of the table (line 313), and the measures hold any lists of notes
InitLoop ==
    /\ pc = "part"
    /\ global_meta = HeaderMeta(FullHeader)
    /\ parts_info = <<[pid |-> "P1", tenuto_id |-> <<"v", "l", "n">>,
                       name |-> <<"V", "l", "n">>, state |-> TenutoState]>>
    /\ pivot_data = <<>>
    /\ divisions_per_quarter = 1
    /\ pid = Some("P1")
    /\ measure_index = 1
    /\ notes = <<>>
    /\ i = 0
    /\ current_voice_tokens = <<>>
    /\ tenuto_code = None
    /\ output_file = None
    /\ error_stream = <<>>
    /\ read = [header |-> TRUE,
               score_parts |-> <<[id |-> "P1", part_name |-> Some(<<"V", "l", "n">>)]>>,
               body |-> 1]
    /\ history = <<>>

\* the loop reads one thing of a note, its chord mark (lines 336-338): the
\* measures are made of a note without the mark and a note with it
LoopNotes == { n \in NoteElements : n.pitch \in {Some(C4), Some(Eb4)} }

NextLoop ==
    \/ /\ pc = "part"
       /\ \E children \in SeqsUpTo(LoopNotes, MaxBody - read.body - 1) :
              BeginMeasure(None, children)
    \/ Cluster
    \/ EndMeasure

\* the loop is sequential code: an iteration that can run does run, and the
\* store after the loop does run
SpecLoop == InitLoop /\ [][NextLoop]_vars /\ WF_vars(Cluster) /\ WF_vars(EndMeasure)

\* ------------------------------------------------------------------ claims
Positions(info) == 1..Len(info)

\* id is base followed by the decimal digits of a count >= 1
NumericSuffix(id, base) == \E n \in 1..(MaxScoreParts + 1) : id = base \o Str(n)

DistinctScorePartIds ==
    \A j, k \in 1..Len(read.score_parts) :
        j # k => read.score_parts[j].id # read.score_parts[k].id

\* C10 as stated: the identifiers of the instrument table are pairwise
\* distinct, and of two instruments with the same display name the second
\* has the base slug followed by a numeric suffix.
C10_SecondHasSuffix ==
    \A j, k \in Positions(parts_info) :
        j < k =>
            /\ parts_info[j].tenuto_id # parts_info[k].tenuto_id
            /\ parts_info[j].name = parts_info[k].name =>
                   NumericSuffix(parts_info[k].tenuto_id, Slug(parts_info[j].name))

\* C10, amended: the identifiers of the instrument table are pairwise
\* distinct; two instruments with the same display name have identifiers made
\* of their common base slug, bare or followed by a numeric suffix, and the
\* second one has the numeric suffix whenever no score-part id is repeated in
\* the part-list.
C10_UniqueIds ==
    \A j, k \in Positions(parts_info) :
        j < k =>
            /\ parts_info[j].tenuto_id # parts_info[k].tenuto_id
            /\ parts_info[j].name = parts_info[k].name =>
                   LET base == Slug(parts_info[j].name)
                   IN /\ \A x \in {j, k} :
                             \/ parts_info[x].tenuto_id = base
                             \/ NumericSuffix(parts_info[x].tenuto_id, base)
                      /\ DistinctScorePartIds =>
                             NumericSuffix(parts_info[k].tenuto_id, base)

\* two instruments of the same display name, the first with the bare slug
\* and the second with a suffix, after a collision that took two rounds
C10_Witness ==
    /\ pc = "logic"
    /\ DistinctScorePartIds
    /\ \E j, k \in Positions(parts_info) :
           /\ j < k
           /\ parts_info[j].name = parts_info[k].name
           /\ parts_info[j].tenuto_id = Slug(parts_info[j].name)
           /\ parts_info[k].tenuto_id = Slug(parts_info[j].name) \o <<"2">>

\* ------------------------------------------------- reading the tokens back
DurationSymbols == {":1", ":2.", ":2", ":4.", ":4", ":8.", ":8", ":16.", ":16", ":32"}

Modifiers == {".stacc", ".acc", ".ten", ".legato"}

IsChordToken(token) == token # <<>> /\ token[1] = "["

\* the pieces of a sequence before the first one that is in stops
RECURSIVE Before(_, _)
Before(seq, stops) ==
    IF seq = <<>> THEN <<>>
    ELSE IF seq[1] \in stops THEN <<>>
    ELSE <<seq[1]>> \o Before(Tail(seq), stops)

\* the pieces after the first one that is in stops
RECURSIVE After(_, _)
After(seq, stops) ==
    IF seq = <<>> THEN <<>>
    ELSE IF seq[1] \in stops THEN Tail(seq) ELSE After(Tail(seq), stops)

\* text.split(sep) of a non-empty text
RECURSIVE Split(_, _)
Split(seq, sep) ==
    IF \E k \in 1..Len(seq) : seq[k] = sep
    THEN <<Before(seq, {sep})>> \o Split(After(seq, {sep}), sep)
    ELSE <<seq>>

\* the pitch sub-tokens of an event token: the bracket's members, or the
\* pieces before the duration and the modifiers
SubTokens(token) ==
    IF IsChordToken(token)
    THEN LET inner == Before(Tail(token), {"]"})
         IN IF inner = <<>> THEN <<>> ELSE Split(inner, " ")
    ELSE <<Before(token, DurationSymbols \cup Modifiers)>>

\* what follows the pitch part of an event token
Suffixes(token) ==
    IF IsChordToken(token) THEN After(token, {"]"})
    ELSE SelectSeq(token, LAMBDA x : x \in DurationSymbols \cup Modifiers)

ShownOctave(sub) == SelectSeq(sub, LAMBDA x : x \in Digits)

ShownDuration(token) == SelectSeq(Suffixes(token), LAMBDA x : x \in DurationSymbols)

\* the events of one voice, in the order parse_logic produced them
Events(p) == SelectSeq(history, LAMBDA h : h.op = "event" /\ h.pid = p)

Pitched(stack) == SelectSeq(stack, LAMBDA n : n.pitch # None)

\* the pitched notes of one event, each with the sub-token that stands for it
EventObs(e) ==
    LET pitched == Pitched(e.chord_stack)
        subs == IF Len(e.chord_stack) = 1 /\ pitched = <<>> THEN <<>>
                ELSE SubTokens(e.token)
    IN IF Len(subs) = Len(pitched)
       THEN [k \in 1..Len(pitched) |->
                [ok |-> TRUE, octave |-> pitched[k].pitch[1].octave, sub |-> subs[k],
                 m |-> e.m, single |-> Len(e.chord_stack) = 1, before |-> e.before]]
       ELSE <<[ok |-> FALSE, octave |-> "", sub |-> <<>>, m |-> e.m, single |-> FALSE,
               before |-> e.before]>>

\* the pitched notes of one voice, in order
VoiceObs(p) ==
    LET ev == Events(p)
    IN Flatten([k \in 1..Len(ev) |-> EventObs(ev[k])])

\* C1: in every voice, a pitched note's sub-token carries the note's octave
\* when the note is the first pitched note of the voice or its octave differs
\* from the previous pitched note's, and carries no octave otherwise (so of a
\* maximal run of equal octaves, rests and bar lines in between or not, only
\* the first carries it); for a single note this is exactly when the octave
\* differs from the voice's last_octave before the call.
C1_StickyOctave ==
    \A p \in PartIds :
        LET obs == VoiceObs(p)
        IN \A n \in 1..Len(obs) :
               /\ obs[n].ok
               /\ ShownOctave(obs[n].sub) =
                      IF n = 1 \/ obs[n].octave # obs[n - 1].octave
                      THEN <<obs[n].octave>> ELSE <<>>
               /\ obs[n].single =>
                      (ShownOctave(obs[n].sub) # <<>>
                           <=> obs[n].before.last_octave # Some(obs[n].octave))

\* a run of two notes of one octave with a rest between them and a bar line
\* in the run: the second note's token has no octave
C1_Witness ==
    \E p \in PartIds :
        LET ev == Events(p)
        IN \E n \in 1..Len(ev) :
               /\ n + 2 <= Len(ev)
               /\ \A k \in {n, n + 1, n + 2} : Len(ev[k].chord_stack) = 1
               /\ ev[n].chord_stack[1].pitch # None
               /\ ev[n + 1].chord_stack[1].pitch = None
               /\ ev[n + 2].chord_stack[1].pitch = ev[n].chord_stack[1].pitch
               /\ ev[n + 2].m # ev[n].m
               /\ ShownOctave(SubTokens(ev[n].token)[1]) # <<>>
               /\ ShownOctave(SubTokens(ev[n + 2].token)[1]) = <<>>

\* the duration symbol the quantizer gives an event
Symbol(e) == calculate_tenuto_duration(e.chord_stack[1].duration, e.divisions)

\* the voice context of a part now
StateOf(p) == PartOf(parts_info, p).state

\* C2: in every voice, an event's token carries the event's duration symbol
\* when the event is the first of the voice or its symbol differs from the
\* previous event's, and carries no duration otherwise; last_duration before
\* an event is the previous event's symbol, and after the last event it is
\* that event's symbol.
C2_StickyDuration ==
    \A p \in PartIds :
        LET ev == Events(p)
        IN /\ \A n \in 1..Len(ev) :
                  /\ ShownDuration(ev[n].token) =
                         IF n = 1 \/ Symbol(ev[n]) # Symbol(ev[n - 1])
                         THEN <<Symbol(ev[n])>> ELSE <<>>
                  /\ ev[n].before.last_duration =
                         IF n = 1 THEN None ELSE Some(Symbol(ev[n - 1]))
                  /\ (ShownDuration(ev[n].token) # <<>>
                          <=> ev[n].before.last_duration # Some(Symbol(ev[n])))
           /\ ev # <<>> => StateOf(p).last_duration = Some(Symbol(ev[Len(ev)]))

\* two events in a row, in two measures, with different tick counts and the
\* same symbol, the second a chord: its token has no duration suffix
C2_Witness ==
    \E p \in PartIds :
        LET ev == Events(p)
        IN \E n \in 1..Len(ev) :
               /\ n + 1 <= Len(ev)
               /\ ev[n].m # ev[n + 1].m
               /\ ev[n].chord_stack[1].duration # ev[n + 1].chord_stack[1].duration
               /\ Symbol(ev[n]) = Symbol(ev[n + 1])
               /\ Len(ev[n + 1].chord_stack) > 1
               /\ ShownDuration(ev[n].token) # <<>>
               /\ ShownDuration(ev[n + 1].token) = <<>>

\* the record of the measure that history[k], an event, belongs to
MeasureOf(k) ==
    history[CHOOSE j \in 1..k :
                /\ history[j].op = "measure"
                /\ \A l \in (j + 1)..k : history[l].op # "measure"]

\* the positions of the note children in a measure's child list, in order
NotePositions(children) ==
    LET RECURSIVE from(_)
        from(c) == IF c > Len(children) THEN <<>>
                   ELSE (IF children[c].tag = "note" THEN <<c>> ELSE <<>>) \o from(c + 1)
    IN from(1)

\* the dynamics markings that stand between the note before the at-th note
\* (counted from 0) of a measure and that note
Pending(children, at) ==
    LET pos == NotePositions(children)
        prev == IF at = 0 THEN 0 ELSE pos[at]
    IN { children[c].dynamics : c \in (prev + 1)..(pos[at + 1] - 1) }

\* the suffix of a dynamics marking: a dot and the marking's tag
DynamicsSuffix(d) == CASE d = "f" -> ".f" [] OTHER -> "."

Has(token, piece) == \E k \in 1..Len(token) : token[k] = piece

\* C3: a dynamics marking that stands before a note and after every earlier
\* note of the measure gives its suffix to the token of that note, and no
\* token has the suffix of a marking that does not stand right before it.
C3_DynamicsAttach ==
    \A k \in 1..Len(history) :
        history[k].op = "event" =>
            LET pending == Pending(MeasureOf(k).children, history[k].at)
            IN /\ \A d \in pending : Has(history[k].token, DynamicsSuffix(d))
               /\ \A d \in {"f"} \ pending : ~Has(history[k].token, DynamicsSuffix(d))

NoteChildren(children) == SelectSeq(children, LAMBDA e : e.tag = "note")

\* the cluster heads of a note list as the specification words them: the
\* first note, and every note without a chord mark
Heads(ns) ==
    LET RECURSIVE from(_)
        from(h) == IF h > Len(ns) THEN <<>>
                   ELSE (IF h = 1 \/ ~ns[h].chord THEN <<h>> ELSE <<>>) \o from(h + 1)
    IN from(1)

\* the members of the n-th cluster: from its head to the note before the
\* next head
Members(ns, n) ==
    LET heads == Heads(ns)
    IN SubSeq(ns, heads[n], IF n < Len(heads) THEN heads[n + 1] - 1 ELSE Len(ns))

\* a pitch sub-token is the note's letter and accidental, with at most its
\* own octave
Renders(sub, note) ==
    LET pitch == note.pitch[1]
        bare == <<Lower(pitch.step)>> \o Accidental(pitch.alter)
    IN sub = bare \/ sub = bare \o <<pitch.octave>>

\* the events recorded after history[j], a measure record, and before k
EventsBetween(j, k) ==
    SelectSeq(SubSeq(history, j + 1, k - 1), LAMBDA h : h.op = "event")

MeasureIndexOf(k) ==
    CHOOSE j \in 1..k :
        /\ history[j].op = "measure"
        /\ \A l \in (j + 1)..k : history[l].op # "measure"

\* C4: when a measure is stored it has one token per cluster head; the n-th
\* token was made with the cursor on the n-th head; for a head followed by
\* k >= 1 chord-marked notes the token is one bracket whose sub-tokens are the
\* pitched ones of the k+1 members, in order; a head without chord-marked
\* followers gives an unbracketed token.  While a measure is walked the cursor
\* is on a head or at the end.
C4_ChordGrouping ==
    /\ \A k \in 1..Len(history) :
           history[k].op = "store" =>
               LET ns == NoteChildren(history[MeasureIndexOf(k)].children)
                   heads == Heads(ns)
                   ev == EventsBetween(MeasureIndexOf(k), k)
                   tokens == history[k].tokens
               IN /\ Len(tokens) = Len(heads)
                  /\ Len(ev) = Len(heads)
                  /\ \A n \in 1..Len(heads) :
                         LET members == Members(ns, n)
                             pitched == Pitched(members)
                             subs == SubTokens(tokens[n])
                         IN /\ ev[n].at = heads[n] - 1
                            /\ ev[n].token = tokens[n]
                            /\ IF Len(members) > 1
                               THEN /\ IsChordToken(tokens[n])
                                    /\ Has(tokens[n], "]")
                                    /\ Len(subs) = Len(pitched)
                                    /\ \A x \in 1..Len(pitched) : Renders(subs[x], pitched[x])
                               ELSE /\ ~IsChordToken(tokens[n])
                                    /\ IF pitched = <<>> THEN subs = <<Rest>>
                                       ELSE Renders(subs[1], pitched[1])
    /\ pc = "notes" =>
           /\ i = Len(notes) \/ \E n \in 1..Len(Heads(notes)) : Heads(notes)[n] = i + 1
           /\ Len(current_voice_tokens) =
                  Cardinality({ n \in 1..Len(Heads(notes)) : Heads(notes)[n] <= i })

\* a stored measure whose first note is followed by exactly two chord-marked
\* notes, one of them a rest, and then by a note without a chord mark: two
\* tokens, the first a bracket of two sub-tokens
C4_Witness ==
    \E k \in 1..Len(history) :
        /\ history[k].op = "store"
        /\ LET ns == NoteChildren(history[MeasureIndexOf(k)].children)
           IN /\ Len(ns) = 4
              /\ ns[2].chord /\ ns[3].chord /\ ~ns[4].chord
              /\ ns[1].pitch # None /\ ns[4].pitch # None
              /\ \E x \in {2, 3} : ns[x].pitch = None
              /\ \E x \in {2, 3} : ns[x].pitch # None
              /\ Len(history[k].tokens) = 2
              /\ Len(SubTokens(history[k].tokens[1])) = 2

\* whether history[j] is a measure whose attribute block gives a divisions value
Redefines(j) ==
    /\ history[j].op = "measure"
    /\ history[j].attrs # None
    /\ history[j].attrs[1].divisions # None

\* the divisions value in force before history[k]: that of the last measure,
\* in traversal order, whose attribute block gave one; 1 when there is none
DivisionsBefore(k) ==
    IF \E j \in 1..(k - 1) : Redefines(j)
    THEN LET last == CHOOSE j \in 1..(k - 1) :
                         Redefines(j) /\ \A l \in (j + 1)..(k - 1) : ~Redefines(l)
         IN history[last].attrs[1].divisions[1]
    ELSE 1

\* C5: every duration symbol is computed with the divisions value of the last
\* attribute block, in traversal order, that gave one (1 before any did),
\* whatever the part and the measure index of the event; the field holds that
\* value at every point.
C5_GlobalScale ==
    /\ \A k \in 1..Len(history) :
           history[k].op = "event" =>
               history[k].ten_dur =
                   calculate_tenuto_duration(history[k].chord_stack[1].duration,
                                             DivisionsBefore(k))
    /\ divisions_per_quarter = DivisionsBefore(Len(history) + 1)

\* a part redefines divisions from 1 to 2 in its second measure; a part
\* walked after it has, in its first measure, a note of 1 tick that is
\* rendered as an eighth
C5_Witness ==
    \E j, k \in 1..Len(history) :
        /\ j < k
        /\ Redefines(j) /\ history[j].m = 2 /\ history[j].attrs[1].divisions = Some(2)
        /\ \A l \in 1..(j - 1) : ~Redefines(l)
        /\ history[k].op = "event" /\ history[k].m = 1
        /\ history[k].pid # history[j].pid
        /\ history[k].chord_stack[1].duration = Some(1)
        /\ history[k].ten_dur = ":8"
        /\ Has(history[k].token, ":8")

\* ------------------------------------------------ reading the output back
\* the lines of the rendered text
OutputLines == Split(tenuto_code[1], "\n")

\* the lines after the "%% Score Logic" line
ScoreLines == After(OutputLines, {<<"  %% Score Logic">>})

IsMeasureLine(line) == line # <<>> /\ line[1] = "  measure "

IsInstrumentLine(line) == line # <<>> /\ line[1] = "    "

\* the number a sequence of decimal digits stands for
RECURSIVE Value(_)
Value(digits) ==
    IF digits = <<>> THEN 0
    ELSE LET d == digits[Len(digits)]
             v == CASE d = "0" -> 0 [] d = "1" -> 1 [] d = "2" -> 2 [] d = "3" -> 3
                    [] d = "4" -> 4 [] d = "5" -> 5 [] d = "6" -> 6 [] d = "7" -> 7
                    [] d = "8" -> 8 [] OTHER -> 9
         IN 10 * Value(SubSeq(digits, 1, Len(digits) - 1)) + v

\* the instrument lines of the output, each with the measure of its block,
\* its identifier and its events, in output order
InstrumentLinesOf(lines) ==
    LET RECURSIVE walk(_, _)
        walk(k, m) ==
            IF k > Len(lines) THEN <<>>
            ELSE IF IsMeasureLine(lines[k])
            THEN walk(k + 1, Value(Before(Tail(lines[k]), {" {"})))
            ELSE IF IsInstrumentLine(lines[k])
            THEN <<[m |-> m, tid |-> Before(Tail(lines[k]), {": "}),
                    events |-> Before(After(lines[k], {": "}), {" |"})]>>
                 \o walk(k + 1, m)
            ELSE walk(k + 1, m)
    IN walk(1, 0)

\* C6: every instrument line of the rendered text is for an instrument that
\* has at least one token recorded for the measure in the pivot table.
C6_LineOnlyWithTokens ==
    tenuto_code # None =>
        LET emitted == InstrumentLinesOf(ScoreLines)
        IN \A k \in 1..Len(emitted) :
               /\ HasKey(pivot_data, emitted[k].m)
               /\ HasKey(pivot_data[emitted[k].m], emitted[k].tid)
               /\ pivot_data[emitted[k].m][emitted[k].tid] # <<>>

C8_NoReset ==
    \A p \in PartIds :
        LET ev == Events(p)
        IN /\ \A n \in 2..Len(ev) : ev[n].before = ev[n - 1].after
           /\ ev # <<>> => StateOf(p) = ev[Len(ev)].after
           /\ \A n \in 1..Len(ev) :
                  /\ ev[n].after.last_duration # None
                  /\ ev[n].before.last_octave # None => ev[n].after.last_octave # None

\* a note in measure 2 that starts from the context measure 1 ended with and
\* so carries neither duration nor octave
C8_Witness ==
    \E p \in PartIds :
        LET ev == Events(p)
        IN \E n \in 2..Len(ev) :
               /\ ev[n - 1].m = 1 /\ ev[n].m = 2
               /\ ev[n].before = ev[n - 1].after
               /\ ev[n].before.last_octave # None
               /\ Pitched(ev[n].chord_stack) # <<>>
               /\ ev[n].token = <<"c">>

\* the position of an identifier in the instrument table (0: not in it)
TablePosition(tid) ==
    IF \E k \in Positions(parts_info) : parts_info[k].tenuto_id = tid
    THEN CHOOSE k \in Positions(parts_info) : parts_info[k].tenuto_id = tid
    ELSE 0

\* C9: the instrument lines of the rendered text come by ascending measure
\* index and, within a measure, by ascending position in the instrument
\* table; the measure blocks are those of the pivot table, each once, in
\* strictly ascending order.
C9_OutputOrder ==
    tenuto_code # None =>
        LET lines == ScoreLines
            emitted == InstrumentLinesOf(lines)
            headers == SelectSeq(lines, IsMeasureLine)
            blocks == [k \in 1..Len(headers) |-> Value(Before(Tail(headers[k]), {" {"}))]
        IN /\ blocks = Sorted(DOMAIN pivot_data)
           /\ \A k \in 2..Len(blocks) : blocks[k - 1] < blocks[k]
           /\ \A k \in 1..Len(emitted) : TablePosition(emitted[k].tid) > 0
           /\ \A k \in 2..Len(emitted) :
                  \/ emitted[k - 1].m < emitted[k].m
                  \/ /\ emitted[k - 1].m = emitted[k].m
                     /\ TablePosition(emitted[k - 1].tid) < TablePosition(emitted[k].tid)

\* the stores in traversal order
Stores == SelectSeq(history, LAMBDA h : h.op = "store")

\* the second instrument of the table was walked first, through two
\* measures, and the first instrument after it: the output has measure 1 with
\* the first instrument's line before the second's, then measure 2
C9_Witness ==
    /\ tenuto_code # None
    /\ Len(parts_info) = 2
    /\ Len(Stores) = 3
    /\ Stores[1].pid = parts_info[2].pid /\ Stores[1].m = 1
    /\ Stores[2].pid = parts_info[2].pid /\ Stores[2].m = 2
    /\ Stores[3].pid = parts_info[1].pid /\ Stores[3].m = 1
    /\ LET emitted == InstrumentLinesOf(ScoreLines)
       IN /\ Len(emitted) = 3
          /\ emitted[1].m = 1 /\ emitted[1].tid = parts_info[1].tenuto_id
          /\ emitted[2].m = 1 /\ emitted[2].tid = parts_info[2].tenuto_id
          /\ emitted[3].m = 2 /\ emitted[3].tid = parts_info[2].tenuto_id

\* ------------------------------------------------------------ reserved key
\* the tokens of one measure, and a change list, to store under two keys
SomeTokens == << <<"c", "4", ":4">> >>

SomeChanges == << <<"time: ", "3", "/", "4">> >>

\* C11: no identifier of the instrument table equals the key of the measure
\* metadata, whatever the display names and the collisions: an identifier has
\* no underscore in it; so storing a change list under the metadata key of a
\* measure leaves the tokens stored under an instrument's identifier as they
\* are, and storing tokens under the identifier leaves the change list as it is.
C11_ReservedKey ==
    \A k \in Positions(parts_info) :
        LET tid == parts_info[k].tenuto_id
            tokens_first == PivotPut(PivotPut(<<>>, 1, tid, SomeTokens), 1, MetaKey, SomeChanges)
            meta_first == PivotPut(PivotPut(<<>>, 1, MetaKey, SomeChanges), 1, tid, SomeTokens)
        IN /\ tid # MetaKey
           /\ \A c \in 1..Len(tid) : tid[c] # "_"
           /\ tokens_first[1][tid] = SomeTokens /\ tokens_first[1][MetaKey] = SomeChanges
           /\ meta_first[1][tid] = SomeTokens /\ meta_first[1][MetaKey] = SomeChanges

\* three instruments whose display name is the metadata key itself: their
\* identifiers are "meta", "meta1" and "meta2"
C11_Witness ==
    /\ pc = "logic"
    /\ Len(parts_info) = 3
    /\ \A k \in Positions(parts_info) : parts_info[k].name = MetaKey
    /\ parts_info[1].tenuto_id = <<"m", "e", "t", "a">>
    /\ parts_info[2].tenuto_id = <<"m", "e", "t", "a", "1">>
    /\ parts_info[3].tenuto_id = <<"m", "e", "t", "a", "2">>

\* ------------------------------------------------------- no partial output
\* the phases of the entry point, in their order
Phase(at) ==
    CASE at = "load" -> 0 [] at = "structure" -> 1
      [] at \in {"logic", "part", "notes"} -> 2
      [] at = "render" -> 3 [] at = "write" -> 4 [] at = "done" -> 5
      [] OTHER -> 6

\* C12: the output file holds something only when loading, the structure
\* scan, the logic parsing and the rendering were each completed, in this
\* order and without a fault, and then it holds the rendered text; a fault in
\* one of them is reported on the error stream, ends the run (no later phase
\* is entered) and leaves the output file as it was.
C12_NoPartialOutput ==
    /\ [](/\ output_file # None =>
                 /\ pc = "done" /\ error_stream = <<>>
                 /\ tenuto_code # None /\ output_file = tenuto_code
          /\ pc = "failed" <=> error_stream # <<>>
          /\ pc = "failed" => output_file = None
          /\ pc \in {"write", "done"} => tenuto_code # None
          /\ tenuto_code # None => Phase(pc) >= 4)
    /\ [][/\ pc # "failed"
          /\ output_file' # output_file => pc = "write" /\ pc' = "done"
          /\ pc' # "failed" => Phase(pc') \in {Phase(pc), Phase(pc) + 1}
          /\ pc' = "failed" => /\ Phase(pc) <= 3
                               /\ error_stream' # error_stream
                               /\ output_file' = output_file
                               /\ tenuto_code' = tenuto_code]_vars

\* a fault while the notes of a second measure are walked: the error is
\* reported, nothing is rendered and there is no output file
C12_Witness ==
    /\ pc = "failed"
    /\ error_stream # <<>>
    /\ \E k \in 1..Len(history) : history[k].op = "measure" /\ history[k].m = 2
    /\ i < Len(notes)
    /\ tenuto_code = None
    /\ output_file = None

\* ----------------------------------------------------------- the quantizer
\* the table of the specification: a number of quarters, as numerator and
\* denominator, and its symbol
QuantizerTable ==
    { <<4, 1, ":1">>, <<3, 1, ":2.">>, <<2, 1, ":2">>, <<3, 2, ":4.">>, <<1, 1, ":4">>,
      <<3, 4, ":8.">>, <<1, 2, ":8">>, <<3, 8, ":16.">>, <<1, 4, ":16">>, <<1, 8, ":32">> }

\* the entries of the table that t/d is exactly equal to
TableHits(t, d) == { e \in QuantizerTable : d # 0 /\ t * e[2] = e[1] * d }

\* C13: for every tick count t and scale d the quantizer gives the symbol of
\* the table entry t/d is exactly equal to, and the quarter-note symbol when
\* there is none, when t is absent and when d is 0.
C13_Quantizer ==
    \A k \in 1..Len(history) :
        history[k].op = "quantize" =>
            LET t == history[k].duration_ticks
                d == history[k].divisions
                hits == IF t = None THEN {} ELSE TableHits(t[1], d)
            IN /\ Cardinality(hits) <= 1
               /\ history[k].ten_dur \in DurationSymbols
               /\ history[k].ten_dur =
                      IF hits = {} THEN ":4" ELSE (CHOOSE e \in hits : TRUE)[3]

\* 6 ticks at 4 per quarter: the dotted quarter
C13_Witness ==
    /\ pc = "quantized"
    /\ history[1].duration_ticks = Some(6)
    /\ history[1].divisions = 4
    /\ history[1].ten_dur = ":4."

\* ------------------------------------------------------------------- rests
\* an event of one note
IsSingle(e) == Len(e.chord_stack) = 1

\* C14: parse_pitch on a rest gives the rest marker and the context it was
\* given; the event of a single rest has the rest marker as its pitch part
\* and changes the context by its duration only, so last_octave is kept; a
\* single pitched note right after the rest, in the octave the context had
\* before the rest, carries no octave.
C14_RestKeepsContext ==
    \A p \in PartIds :
        LET ev == Events(p)
        IN \A n \in 1..Len(ev) :
               (IsSingle(ev[n]) /\ ev[n].chord_stack[1].pitch = None) =>
                   /\ parse_pitch(ev[n].chord_stack[1], ev[n].before)
                          = [token |-> Rest, state |-> ev[n].before]
                   /\ Before(ev[n].token, DurationSymbols \cup Modifiers) = Rest
                   /\ ev[n].after.last_octave = ev[n].before.last_octave
                   /\ ev[n].after = DurationSuffix(ev[n].before, ev[n].ten_dur).state
                   /\ (/\ n < Len(ev)
                       /\ IsSingle(ev[n + 1])
                       /\ ev[n + 1].chord_stack[1].pitch # None
                       /\ ev[n].before.last_octave
                              = Some(ev[n + 1].chord_stack[1].pitch[1].octave))
                      => ShownOctave(SubTokens(ev[n + 1].token)[1]) = <<>>

\* a note in octave 5, a rest, and the same note again: the rest is "r" with
\* its own duration, and the last token has no octave
C14_Witness ==
    \E p \in PartIds :
        LET ev == Events(p)
        IN \E n \in 2..(Len(ev) - 1) :
               /\ ev[n - 1].chord_stack = <<Note(FALSE, Some(Gs5), Some(2), Some(Articulated))>>
               /\ ev[n].chord_stack = <<Note(FALSE, None, Some(1), None)>>
               /\ ev[n + 1].chord_stack = ev[n - 1].chord_stack
               /\ ev[n].before.last_octave = Some("5")
               /\ ev[n].token = <<"r", ":4">>
               /\ ev[n + 1].token = <<"g", "#", ":2", ".stacc", ".ten", ".legato">>

\* ---------------------------------------------------------- chord members
\* C15: in the event of a chord cluster the bracket has one sub-token per
\* pitched member, in cluster order, and none for a rest member; a pitched
\* member carries its octave exactly when it differs from the octave of the
\* previous pitched member, or from last_octave before the chord for the
\* first one; after the cluster last_octave is the octave of the last pitched
\* member, and what it was before when no member is pitched.
C15_ChordMembers ==
    \A k \in 1..Len(history) :
        (history[k].op = "event" /\ Len(history[k].chord_stack) > 1) =>
            LET e == history[k]
                pitched == Pitched(e.chord_stack)
                subs == SubTokens(e.token)
                octave(x) == pitched[x].pitch[1].octave
            IN /\ IsChordToken(e.token)
               /\ Len(subs) = Len(pitched)
               /\ \A x \in 1..Len(subs) :
                      /\ subs[x] # Rest
                      /\ Renders(subs[x], pitched[x])
                      /\ ShownOctave(subs[x]) # <<>>
                             <=> Some(octave(x)) # (IF x = 1 THEN e.before.last_octave
                                                    ELSE Some(octave(x - 1)))
               /\ e.after.last_octave =
                      IF pitched = <<>> THEN e.before.last_octave
                      ELSE Some(octave(Len(pitched)))

\* a chord of a note in octave 5, a rest and two notes in octave 4, at the
\* start of a voice: the bracket is [g#5 eb4 eb]
C15_Witness ==
    \E k \in 1..Len(history) :
        /\ history[k].op = "event"
        /\ Len(history[k].chord_stack) = 4
        /\ history[k].before.last_octave = None
        /\ history[k].chord_stack[2].pitch = None
        /\ history[k].after.last_octave = Some("4")
        /\ SubTokens(history[k].token) = << <<"g", "#", "5">>, <<"e", "b", "4">>, <<"e", "b">> >>

\* ------------------------------------------------- the duration of a chord
\* the tick counts given to the chord-marked members in place of their own
MemberDurations == {None, Some(1), Some(3), Some(4)}

\* a chord stack with the duration of every member but the head replaced
Retimed(stack, d) ==
    [x \in 1..Len(stack) |-> IF x = 1 THEN stack[x] ELSE [stack[x] EXCEPT !.duration = d]]

\* C16: the duration symbol of a chord event is the quantizer's result for
\* the head's tick count under the scale in force; the token carries it
\* exactly when it differs from last_duration before the event, and
\* last_duration is it afterwards; with any other tick counts in the
\* chord-marked members the token and the context after the event are the
\* same.
C16_HeadDuration ==
    \A k \in 1..Len(history) :
        (history[k].op = "event" /\ Len(history[k].chord_stack) > 1) =>
            LET e == history[k]
                symbol == calculate_tenuto_duration(e.chord_stack[1].duration, e.divisions)
            IN /\ e.ten_dur = symbol
               /\ ShownDuration(e.token) =
                      IF e.before.last_duration = Some(symbol) THEN <<>> ELSE <<symbol>>
               /\ e.after.last_duration = Some(symbol)
               /\ \A d \in MemberDurations :
                      LET c == ClusterToken(Retimed(e.chord_stack, d), 1, e.before, e.divisions)
                      IN /\ c.chord_stack = Retimed(e.chord_stack, d)
                         /\ c.token = e.token
                         /\ c.state = e.after

\* a head of 1 tick with a chord-marked member of 2 ticks, one tick to the
\* quarter: the chord is a quarter
C16_Witness ==
    \E k \in 1..Len(history) :
        /\ history[k].op = "event"
        /\ history[k].divisions = 1
        /\ Len(history[k].chord_stack) = 2
        /\ history[k].chord_stack[1].duration = Some(1)
        /\ history[k].chord_stack[2].duration = Some(2)
        /\ history[k].token = <<"[", "c", "4", " ", "e", "b", "]", ":4">>

\* ------------------------------------------------------------ pivot writes
\* history[k] is a store of measure m under identifier tid
IsStore(k, m, tid) ==
    history[k].op = "store" /\ history[k].m = m /\ history[k].tenuto_id = tid

\* history[k] is a measure of index m whose attribute block gave a change list
IsMetaWrite(k, m) ==
    history[k].op = "measure" /\ history[k].m = m /\ history[k].meta_changes # <<>>

SkipsPart ==
    /\ Len(history') = Len(history) + 1
    /\ history'[Len(history')].op = "skip"

\* C18: a part element whose id is not in the instrument table is skipped as
\* a whole: the step that meets it changes neither the pivot table nor a
\* voice context nor the divisions value, and parse_logic goes on with the
\* next part element; no measure, event or store is ever recorded for its
\* id, and every event after it is quantized under the divisions value of the
\* last walked measure that gave one, whatever the attribute block of the
\* skipped part.
C18_SkipUnknownPart ==
    /\ [](\A k \in 1..Len(history) :
              /\ history[k].op = "skip" =>
                     /\ ~Known(parts_info, history[k].pid)
                     /\ \A l \in 1..Len(history) :
                            history[l].op # "skip" => history[l].pid # history[k].pid
              /\ history[k].op = "event" => history[k].divisions = DivisionsBefore(k))
    /\ [][/\ SkipsPart =>
                 /\ pc = "logic" /\ pc' = "logic"
                 /\ UNCHANGED <<pivot_data, parts_info, divisions_per_quarter, global_meta,
                                pid, measure_index, notes, i, current_voice_tokens>>
          /\ (pc = "logic" /\ pc' = "part") => Known(parts_info, pid'[1])]_vars

\* a part element that is not in the table, whose first measure sets 2 ticks
\* to the quarter, is met before the one part of the table: the note of 1
\* tick of that part is a quarter
C18_Witness ==
    \E j, k \in 1..Len(history) :
        /\ j < k
        /\ history[j].op = "skip"
        /\ history[j].attrs # None /\ history[j].attrs[1].divisions = Some(2)
        /\ history[k].op = "event"
        /\ history[k].divisions = 1
        /\ history[k].chord_stack[1].duration = Some(1)
        /\ history[k].token = <<"c", "4", ":4">>
        /\ divisions_per_quarter = 1

\* ---------------------------------------------------------- voice isolation
\* the tokens and the context that the clusters of ev give when they are
\* rendered alone, from the context state on, each under the divisions value
\* it was rendered under
RECURSIVE Replay(_, _)
Replay(ev, state) ==
    IF ev = <<>> THEN [tokens |-> <<>>, state |-> state]
    ELSE LET c == ClusterToken(ev[1].chord_stack, 1, state, ev[1].divisions)
             others == Replay(Tail(ev), c.state)
         IN [tokens |-> <<c.token>> \o others.tokens, state |-> others.state]

\* C19: a step changes the voice context of an instrument only while the
\* notes of that instrument's part are walked; and the tokens of a part are
\* those its clusters give when they are rendered alone from an empty
\* context, under the same divisions values, whatever parts are walked before
\* it, after it or between two part elements of its id; its context is the
\* one that rendering ends with.
C19_VoiceIsolation ==
    /\ [](\A p \in PartIds :
              Known(parts_info, p) =>
                  LET ev == Events(p)
                      alone == Replay(ev, TenutoState)
                  IN /\ alone.tokens = [n \in 1..Len(ev) |-> ev[n].token]
                     /\ alone.state = StateOf(p))
    /\ [][/\ Phase(pc) = 2 => Len(parts_info') = Len(parts_info)
          /\ \A k \in Positions(parts_info) :
                 (Phase(pc) = 2 /\ parts_info'[k].state # parts_info[k].state) =>
                     /\ pc = "notes"
                     /\ pid = Some(parts_info[k].pid)]_vars

\* the first instrument plays g#5 as a half, then the second plays c4 as a
\* quarter: its token carries the octave and the duration, and the context
\* of the first instrument is still the one its own note left
C19_Witness ==
    /\ Len(parts_info) = 2
    /\ LET a == Events(parts_info[1].pid)
           b == Events(parts_info[2].pid)
       IN /\ Len(a) = 1 /\ Len(b) = 1
          /\ a[1].after = [last_duration |-> Some(":2"), last_octave |-> Some("5")]
          /\ history[Len(history)] = b[1]
          /\ b[1].token = <<"c", "4", ":4">>
          /\ parts_info[1].state = a[1].after
          /\ parts_info[2].state = [last_duration |-> Some(":4"), last_octave |-> Some("4")]

\* ------------------------------------------------------- reading a voice
\* the duration a reader holds after the n-th event of a voice: the last
\* duration suffix written in the tokens 1..n (None when there is none)
RECURSIVE CarriedDuration(_, _)
CarriedDuration(ev, n) ==
    IF n = 0 THEN None
    ELSE LET shown == ShownDuration(ev[n].token)
         IN IF shown # <<>> THEN Some(shown[Len(shown)]) ELSE CarriedDuration(ev, n - 1)

\* the octave a reader holds after the n-th pitched note of a voice: the
\* last octave written in the sub-tokens 1..n
RECURSIVE CarriedOctave(_, _)
CarriedOctave(obs, n) ==
    IF n = 0 THEN None
    ELSE LET shown == ShownOctave(obs[n].sub)
         IN IF shown # <<>> THEN Some(shown[Len(shown)]) ELSE CarriedOctave(obs, n - 1)

\* the tokens of a part as the output has them: those the pivot table holds
\* under the part's identifier, by ascending measure index
OutputTokens(p) ==
    LET tid == PartOf(parts_info, p).tenuto_id
        ms == Sorted({ m \in DOMAIN pivot_data : HasKey(pivot_data[m], tid) })
    IN Flatten([k \in 1..Len(ms) |-> pivot_data[ms[k]][tid]])

\* a measure index of the part was walked twice: the part's id is on two
\* part elements that have measures
Repeated(p) ==
    \E j, k \in 1..Len(history) :
        /\ j < k
        /\ history[j].op = "measure" /\ history[k].op = "measure"
        /\ history[j].pid = p /\ history[k].pid = p
        /\ history[j].m = history[k].m

\* what a reader of the part's tokens gets: for every event the symbol the
\* quantizer computed, for every pitched note its octave in the source, and
\* the part's context is the last suffix and the last octave written; once
\* parse_logic is over, the tokens of the output are those of the events
ReadsBack(p) ==
    LET ev == Events(p)
        obs == VoiceObs(p)
    IN /\ \A n \in 1..Len(ev) :
              /\ Len(ShownDuration(ev[n].token)) <= 1
              /\ CarriedDuration(ev, n) = Some(ev[n].ten_dur)
              /\ ev[n].ten_dur = Symbol(ev[n])
              /\ ev[n].after.last_duration = CarriedDuration(ev, n)
       /\ \A n \in 1..Len(obs) :
              /\ obs[n].ok
              /\ Len(ShownOctave(obs[n].sub)) <= 1
              /\ CarriedOctave(obs, n) = Some(obs[n].octave)
       /\ StateOf(p).last_duration = CarriedDuration(ev, Len(ev))
       /\ StateOf(p).last_octave = CarriedOctave(obs, Len(obs))
       /\ Phase(pc) >= 3 => OutputTokens(p) = [n \in 1..Len(ev) |-> ev[n].token]

\* C20 as stated: reading the tokens of a part in output order and carrying
\* the last written duration suffix and the last written octave forward
\* gives, for every event, the symbol the quantizer computed for it, and for
\* every pitched note, chord members included, its octave in the source; the
\* part's last_duration and last_octave are the last duration suffix and the
\* last octave written for the part.
C20_LosslessOutput ==
    \A p \in PartIds : Known(parts_info, p) => ReadsBack(p)

\* C20, amended: the same, for a part whose id is on one part element only.
C20_Lossless ==
    \A p \in PartIds : (Known(parts_info, p) /\ ~Repeated(p)) => ReadsBack(p)

\* a quarter c4, then in the next measure a chord of c4 and eb4 of the same
\* length: the output has "c4:4" and "[c eb]" for the part, and the reader
\* still gets a quarter and octave 4 for both notes of the chord
C20_Witness ==
    /\ pc = "render"
    /\ \E p \in PartIds :
           /\ Known(parts_info, p) /\ ~Repeated(p)
           /\ LET ev == Events(p)
                  obs == VoiceObs(p)
              IN /\ Len(ev) = 2 /\ Len(obs) = 3
                 /\ ev[1].m = 1 /\ ev[2].m = 2
                 /\ OutputTokens(p) = << <<"c", "4", ":4">>, <<"[", "c", " ", "e", "b", "]">> >>
                 /\ CarriedDuration(ev, 2) = Some(":4")
                 /\ CarriedOctave(obs, 3) = Some("4")
                 /\ \A n \in 1..3 : obs[n].octave = "4"

\* -------------------------------------------------------- the grouping loop
\* the number of cluster heads of a note list: the notes without a chord
\* mark, plus the first note when it has one
HeadCount(ns) ==
    Cardinality({ x \in 1..Len(ns) : ~ns[x].chord })
        + (IF ns # <<>> /\ ns[1].chord THEN 1 ELSE 0)

\* the events of the measure walked last
LoopEvents ==
    IF history = <<>> THEN <<>>
    ELSE EventsBetween(MeasureIndexOf(Len(history)), Len(history) + 1)

\* C21: the grouping loop ends for every note list: a measure whose notes
\* are being walked gets stored.  Every iteration moves the cursor forward,
\* and not past the end; the clusters are contiguous and in document order,
\* the first at the first note, each starting where the one before it ended,
\* so that the notes before the cursor are each in exactly one cluster; there
\* is one token per cluster, and when the measure is stored the cursor is at
\* the end and the number of tokens is the number of cluster heads.
C21_LoopTerminates ==
    /\ [](LET ev == LoopEvents
          IN /\ i <= Len(notes)
             /\ Len(current_voice_tokens) = Len(ev)
             /\ \A n \in 1..Len(ev) :
                    /\ ev[n].chord_stack # <<>>
                    /\ ev[n].at = IF n = 1 THEN 0
                                  ELSE ev[n - 1].at + Len(ev[n - 1].chord_stack)
                    /\ ev[n].chord_stack
                           = SubSeq(notes, ev[n].at + 1, ev[n].at + Len(ev[n].chord_stack))
                    /\ current_voice_tokens[n] = ev[n].token
             /\ i = IF ev = <<>> THEN 0
                    ELSE ev[Len(ev)].at + Len(ev[Len(ev)].chord_stack)
             /\ Flatten([n \in 1..Len(ev) |-> ev[n].chord_stack]) = SubSeq(notes, 1, i)
             /\ (pc = "part" /\ history # <<>>) =>
                    /\ i = Len(notes)
                    /\ history[Len(history)].op = "store"
                    /\ history[Len(history)].tokens = current_voice_tokens
                    /\ Len(current_voice_tokens) = HeadCount(notes))
    /\ [][/\ pc = "notes" => i' >= i
          /\ (pc = "notes" /\ pc' = "notes") => i' > i]_vars
    /\ (pc = "notes") ~> (pc = "part")

\* a list of four notes that begins with two chord-marked ones: two clusters
\* of two notes, two tokens, and the measure is stored
C21_Witness ==
    /\ pc = "part"
    /\ Len(notes) = 4
    /\ notes[1].chord /\ notes[2].chord /\ ~notes[3].chord /\ notes[4].chord
    /\ i = 4
    /\ Len(LoopEvents) = 2
    /\ LoopEvents[2].at = 2
    /\ Len(current_voice_tokens) = 2
    /\ HeadCount(notes) = 2

====
